---- MODULE Spec2Model ----
(***************************************************************************)
(* Route Calculator API (app/main.py, app/services.py, app/models.py).     *)
(*                                                                         *)
(* Python values are tagged records: None, str, float, list, dict.  A str  *)
(* carries its text as a sequence of pieces (field values and the literal  *)
(* pieces an f-string or a join inserts), so that concatenation and        *)
(* joining are computed and separators can be located in the result.       *)
(* A float carries hundredths (of a degree, of a kilometre).               *)
(***************************************************************************)
EXTENDS Integers, Sequences, FiniteSets, TLC

VARIABLES pc, request, data, route_request, home_address, office_address,
          loop, home_coords, office_coords, distance, calls, exc, response,
          arg, ret

vars == <<pc, request, data, route_request, home_address, office_address,
          loop, home_coords, office_coords, distance, calls, exc, response,
          arg, ret>>

(***************************************************************************)
(* Bounds of the model.                                                    *)
(***************************************************************************)
\* longest candidate list a geocoding provider response carries in the model
MaxCandidates == 2
\* longest route list a routing provider response carries in the model
MaxRoutes == 2

(***************************************************************************)
(* Python values.                                                          *)
(***************************************************************************)
PyNone == [type |-> "NoneType"]
PyStr(t) == [type |-> "str", v |-> t]
PyFloat(n) == [type |-> "float", v |-> n]
PyInt(n) == [type |-> "int", v |-> n]
PyList(s) == [type |-> "list", v |-> s]
PyDict(d) == [type |-> "dict", v |-> d]
\* a variable the handler has not assigned yet
Unset == [type |-> "unset"]

\* Python truthiness of a value (`if x:` / `not x`)
Truthy(x) ==
    CASE x.type = "NoneType" -> FALSE
      [] x.type = "str"      -> x.v # <<>>
      [] x.type = "list"     -> x.v # <<>>
      [] x.type = "dict"     -> DOMAIN x.v # {}
      [] x.type = "float"    -> x.v # 0
      [] x.type = "int"      -> x.v # 0
      [] OTHER               -> TRUE

\* dict.get(k): the value under k, None when the key is missing
Get(d, k) ==
    IF d.type = "dict" /\ k \in DOMAIN d.v THEN d.v[k] ELSE PyNone

\* the text of a str value
Text(x) == x.v

\* sep.join(parts), parts a sequence of texts
RECURSIVE Join(_, _)
Join(sep, parts) ==
    IF parts = <<>> THEN <<>>
    ELSE IF Len(parts) = 1 THEN parts[1]
    ELSE parts[1] \o <<sep>> \o Join(sep, Tail(parts))

(***************************************************************************)
(* app/models.py: LocationRequest                                          *)
(***************************************************************************)
Fields == {"HSNMR", "STRAS", "LOCAT", "PSTLZ", "ORT01", "LAND1"}

\* a value for each field, as a caller would send it
FieldValue(k) ==
    CASE k = "HSNMR" -> PyStr(<<"12">>)
      [] k = "STRAS" -> PyStr(<<"Rue de Rivoli">>)
      [] k = "LOCAT" -> PyStr(<<"Bat A">>)
      [] k = "PSTLZ" -> PyStr(<<"75001">>)
      [] k = "ORT01" -> PyStr(<<"Paris">>)
      [] k = "LAND1" -> PyStr(<<"France">>)

(***************************************************************************)
(* app/main.py: compose_address                                            *)
(***************************************************************************)
\* lines 23-28: house number and street
StreetParts(location_data) ==
    LET h == Get(location_data, "HSNMR")
        s == Get(location_data, "STRAS")
    IN  IF Truthy(h) /\ Truthy(s) THEN << Text(h) \o <<" ">> \o Text(s) >>
        ELSE IF Truthy(s) THEN << Text(s) >>
        ELSE IF Truthy(h) THEN << Text(h) >>
        ELSE <<>>

\* lines 31-32 with the truthiness test dropped
ComplementPartsUnchecked(location_data) ==
    IF Get(location_data, "LOCAT").type = "str"
    THEN << Text(Get(location_data, "LOCAT")) >>
    ELSE << <<>> >>

\* lines 31-32: location complement
ComplementParts(location_data) ==
    IF Truthy(Get(location_data, "LOCAT"))
    THEN << Text(Get(location_data, "LOCAT")) >>
    ELSE <<>>

\* lines 35-38: postal code and city
PostalCityParts(location_data) ==
    LET p == Get(location_data, "PSTLZ")
        c == Get(location_data, "ORT01")
    IN  IF Truthy(p) /\ Truthy(c) THEN << Text(p) \o <<" ">> \o Text(c) >>
        ELSE IF Truthy(c) THEN << Text(c) >>
        ELSE <<>>

\* lines 41-42: country
CountryParts(location_data) ==
    IF Truthy(Get(location_data, "LAND1"))
    THEN << Text(Get(location_data, "LAND1")) >>
    ELSE <<>>

\* lines 20-42: address_parts when the join is reached
address_parts(location_data) ==
    StreetParts(location_data) \o ComplementParts(location_data)
        \o PostalCityParts(location_data) \o CountryParts(location_data)

compose_address(location_data) == Join(", ", address_parts(location_data))

(***************************************************************************)
(* The outcome of one HTTP exchange with a provider, as httpx reports it:  *)
(* the request raised (transport error, timeout), raise_for_status raised, *)
(* response.json() raised, or the decoded JSON value.                      *)
(***************************************************************************)
ExchangeFailures ==
    { [kind |-> "transport_error"], [kind |-> "http_error"], [kind |-> "bad_json"] }

Decoded(j) == [kind |-> "json", data |-> j]

\* sequences over S of length 0..n
SeqUpTo(S, n) == UNION { [1..k -> S] : k \in 0..n }

(***************************************************************************)
(* float(s) for a JSON string or number.  The texts of the model are       *)
(* decimal numerals with at most two fractional digits (read exactly) and  *)
(* non-numerals (ValueError); a numeral is a sequence of characters.       *)
(***************************************************************************)
DigitChars == {"0", "1", "2", "3", "4", "5", "6", "7", "8", "9"}

DigitVal(c) ==
    CASE c = "0" -> 0 [] c = "1" -> 1 [] c = "2" -> 2 [] c = "3" -> 3
      [] c = "4" -> 4 [] c = "5" -> 5 [] c = "6" -> 6 [] c = "7" -> 7
      [] c = "8" -> 8 [] c = "9" -> 9

RECURSIVE DigitsVal(_)
DigitsVal(t) ==
    IF t = <<>> THEN 0
    ELSE DigitsVal(SubSeq(t, 1, Len(t) - 1)) * 10 + DigitVal(t[Len(t)])

Raised == [type |-> "exception"]

\* float(x): PyFloat in hundredths, or Raised (TypeError / ValueError)
ToFloat(x) ==
    IF x.type \in {"float", "int"} THEN PyFloat(x.v)
    ELSE IF x.type # "str" THEN Raised
    ELSE
      LET t    == x.v
          neg  == t # <<>> /\ t[1] = "-"
          u    == IF t # <<>> /\ t[1] \in {"-", "+"} THEN Tail(t) ELSE t
          dots == { i \in DOMAIN u : u[i] = "." }
          ok   == /\ \A i \in DOMAIN u : u[i] \in DigitChars \cup {"."}
                  /\ Cardinality(dots) <= 1
                  /\ \E i \in DOMAIN u : u[i] \in DigitChars
          d    == IF dots = {} THEN Len(u) + 1 ELSE CHOOSE i \in dots : TRUE
          whole == SubSeq(u, 1, d - 1)
          frac  == SubSeq(u, d + 1, Len(u)) \o <<"0", "0">>
          mag   == DigitsVal(whole) * 100 + DigitsVal(SubSeq(frac, 1, 2))
      IN  IF ~ok THEN Raised
          ELSE PyFloat(IF neg THEN 0 - mag ELSE mag)

(***************************************************************************)
(* app/services.py: GeocodingService.geocode                               *)
(***************************************************************************)
NotFoundPair == <<PyNone, PyNone>>

\* lines 29-31 with the second candidate read instead of the first
FirstCandidateLast(results) == results.v[Len(results.v)]

\* line 29: data[0]
FirstCandidate(results) == results.v[1]

\* lines 14-38; x is the outcome of the GET of line 16
geocode(x) ==
    IF x.kind # "json" THEN NotFoundPair                     \* lines 36-38
    ELSE IF ~Truthy(x.data) THEN NotFoundPair                \* lines 32-34
    ELSE IF x.data.type # "list" THEN NotFoundPair           \* data[0] raises
    ELSE
      LET c   == FirstCandidate(x.data)
          lat == IF c.type = "dict" /\ "lat" \in DOMAIN c.v
                 THEN ToFloat(c.v["lat"]) ELSE Raised
          lon == IF c.type = "dict" /\ "lon" \in DOMAIN c.v
                 THEN ToFloat(c.v["lon"]) ELSE Raised
      IN  IF lat = Raised \/ lon = Raised THEN NotFoundPair  \* lines 36-38
          ELSE <<lat, lon>>                                  \* line 31

(***************************************************************************)
(* app/services.py: RoutingService.calculate_distance                      *)
(***************************************************************************)
\* line 56-57: the body posted, each pair as [lon, lat]
ors_coordinates(start_coords, end_coords) ==
    << <<start_coords[2], start_coords[1]>>, <<end_coords[2], end_coords[1]>> >>

\* metres whose quotient by 1000, as a double, lies above the tie it prints as
TiesAbove == {5, 12345}

\* line 69: round(distance_meters / 1000, 2), in hundredths of a kilometre
RoundKm(m) ==
    LET q == m \div 10
        r == m % 10
    IN  IF r < 5 THEN q
        ELSE IF r > 5 THEN q + 1
        ELSE IF m \in TiesAbove THEN q + 1 ELSE q

\* line 66: "routes" in data and data["routes"]
HasRoutes(d) ==
    /\ d.type = "dict"
    /\ "routes" \in DOMAIN d.v
    /\ Truthy(d.v["routes"])

\* lines 47-76; x is the outcome of the POST of line 52 (provider distances
\* are whole metres in the model)
calculate_distance(x) ==
    IF x.kind # "json" THEN PyNone                           \* lines 74-76
    ELSE IF x.data.type \notin {"dict", "list", "str"} THEN PyNone  \* `in` raises
    ELSE IF ~HasRoutes(x.data) THEN PyNone                   \* lines 70-72
    ELSE
      LET routes == x.data.v["routes"]
          r == IF routes.type = "list" /\ routes.v # <<>> THEN routes.v[1] ELSE Raised
          s == IF r.type = "dict" /\ "summary" \in DOMAIN r.v
               THEN r.v["summary"] ELSE Raised
          m == IF s.type = "dict" /\ "distance" \in DOMAIN s.v
               THEN s.v["distance"] ELSE Raised
      IN  IF m.type # "int" THEN PyNone                      \* lines 74-76
          ELSE PyFloat(RoundKm(m.v))                         \* line 69

(***************************************************************************)
(* Provider responses of the model.                                        *)
(***************************************************************************)
Chars(s) == PyStr(s)

LatTexts == { Chars(<<"4", "8", ".", "8", "5">>), Chars(<<"-", "0", ".", "5">>),
              Chars(<<"a", "b", "c">>) }
LonTexts == { Chars(<<"2", ".", "3", "5">>), Chars(<<"x">>) }

Candidates ==
    { PyDict([lat |-> a, lon |-> o]) : a \in LatTexts, o \in LonTexts }
      \cup { PyDict([lat |-> a]) : a \in LatTexts }
      \cup { PyDict([lon |-> o]) : o \in LonTexts }
      \cup { PyDict(<<>>) }

GeocodeExchanges ==
    ExchangeFailures
      \cup { Decoded(PyList(c)) : c \in SeqUpTo(Candidates, MaxCandidates) }
      \cup { Decoded(PyNone), Decoded(PyDict([error |-> PyStr(<<"Unable to geocode">>)])) }

Meters == {0, 1234, 2675, 12345}

Routes ==
    { PyDict([summary |-> PyDict([distance |-> PyInt(m)])]) : m \in Meters }
      \cup { PyDict([summary |-> PyDict([distance |-> PyStr(<<"far">>)])]),
             PyDict([summary |-> PyDict(<<>>)]),
             PyDict(<<>>) }

RoutingExchanges ==
    ExchangeFailures
      \cup { Decoded(PyDict([routes |-> PyList(r)])) : r \in SeqUpTo(Routes, MaxRoutes) }
      \cup { Decoded(PyNone), Decoded(PyList(<<>>)),
             Decoded(PyDict([error |-> PyStr(<<"no route">>)])) }

(***************************************************************************)
(* Exceptions and the response envelope of calculate_route.                *)
(***************************************************************************)
Exc(cls, text) == [cls |-> cls, text |-> text]

\* what request.get_json() raises (werkzeug BadRequest / UnsupportedMediaType)
HTTPException == Exc("HTTPException", <<"400 Bad Request">>)
\* what RouteRequest(data) raises
ValidationError == Exc("ValidationError", <<"validation error for RouteRequest">>)
\* what asyncio.new_event_loop() raises when no descriptor is left
LoopSetupError == Exc("OSError", <<"[Errno 24] Too many open files">>)
\* what loop.run_until_complete raises from the loop itself, outside the client's try
LoopRunErrors ==
    { Exc("RuntimeError", <<"Event loop stopped before Future completed.">>),
      Exc("ValueError", <<"too many file descriptors in select()">>) }

\* datetime.utcnow().isoformat()
Timestamp == PyStr(<<"utcnow">>)

\* an envelope with data dropped as for an error but the status left at success
ErrorEnvelopeStatusSuccess(message, code) ==
    [ status |-> "success", error |-> PyStr(message), data |-> PyNone,
      metadata |-> [timestamp |-> Timestamp], http_status |-> code ]

\* lines 59-64, 70-75, 159-164, 167-172: the error envelope and its status code
ErrorEnvelope(message, code) ==
    [ status |-> "error", error |-> PyStr(message), data |-> PyNone,
      metadata |-> [timestamp |-> Timestamp], http_status |-> code ]

GenericMessage == <<"An unexpected error occurred">>

\* lines 157-172: the two except clauses of the handler
Handle(e) ==
    IF e.cls = "ValueError"
    THEN ErrorEnvelope(e.text, 400)
    ELSE ErrorEnvelope(GenericMessage, 500)

\* lines 93-94 with the home message carrying the office wording
HomeGeocodeErrorAsOffice(address) ==
    Exc("ValueError", <<"Could not geocode office address: ">> \o Text(address))

\* line 94
HomeGeocodeError(address) ==
    Exc("ValueError", <<"Could not geocode home address: ">> \o Text(address))

\* line 101
OfficeGeocodeError(address) ==
    Exc("ValueError", <<"Could not geocode office address: ">> \o Text(address))

\* line 112
RouteError == Exc("ValueError", <<"Could not calculate route between addresses">>)

\* lines 93, 100 with the test never taken
CoordsMissingNever(coords) == FALSE

\* lines 93, 100: lat is None or lon is None
CoordsMissing(coords) == coords[1] = PyNone \/ coords[2] = PyNone

\* lines 122-134, 135-147: one location of the success envelope
LocationOut(loc, key, address, coords) ==
    [k \in Fields \cup {key, "coordinates"} |->
        IF k \in Fields THEN loc.v[k]
        ELSE IF k = key THEN address
        ELSE [latitude |-> coords[1], longitude |-> coords[2]]]

\* lines 118-153 with the two coordinate pairs exchanged
SuccessEnvelopeSwapped(rr, haddr, oaddr, hc, oc, dist) ==
    [ status |-> "success", error |-> PyNone,
      data |-> [ home |-> LocationOut(rr.home, "home_address", haddr, oc),
                 office |-> LocationOut(rr.office, "office_address", oaddr, hc),
                 distance |-> dist ],
      metadata |-> [timestamp |-> Timestamp], http_status |-> 200 ]

\* lines 118-155
SuccessEnvelope(rr, haddr, oaddr, hc, oc, dist) ==
    [ status |-> "success", error |-> PyNone,
      data |-> [ home |-> LocationOut(rr.home, "home_address", haddr, hc),
                 office |-> LocationOut(rr.office, "office_address", oaddr, oc),
                 distance |-> dist ],
      metadata |-> [timestamp |-> Timestamp], http_status |-> 200 ]

(***************************************************************************)
(* app/models.py: RouteRequest(data)                                     *)
(***************************************************************************)
\* LocationRequest: a mapping with the six fields, each a str
LocationValid(l) ==
    /\ l.type = "dict"
    /\ \A k \in Fields : k \in DOMAIN l.v /\ l.v[k].type = "str"

\* RouteRequest(data) accepts every mapping
RouteRequestValidAlways(d) == d.type = "dict"

\* RouteRequest(data) does not raise
RouteRequestValid(d) ==
    /\ d.type = "dict"
    /\ "home" \in DOMAIN d.v /\ LocationValid(d.v["home"])
    /\ "office" \in DOMAIN d.v /\ LocationValid(d.v["office"])

\* model.dict(): the declared fields of the location
LocationDict(l) == PyDict([k \in Fields |-> Get(l, k)])

RouteRequest(d) ==
    [ home |-> LocationDict(Get(d, "home")), office |-> LocationDict(Get(d, "office")) ]

(***************************************************************************)
(* Requests of the model.                                                  *)
(***************************************************************************)
\* a location whose fields in P carry their value and the others the empty string
Loc(P) == PyDict([k \in Fields |-> IF k \in P THEN FieldValue(k) ELSE PyStr(<<>>)])

LocationSamples ==
    { Loc(P) : P \in { Fields, Fields \ {"LOCAT"}, {"ORT01"}, {"PSTLZ", "LAND1"}, {},
                       {"HSNMR"}, {"STRAS", "ORT01"}, Fields \ {"LOCAT", "LAND1"} } }

ValidBodies == { PyDict([home |-> h, office |-> o]) : h \in LocationSamples, o \in LocationSamples }

\* a location with the country key missing, and one with a null city
LocNoCountry == PyDict([k \in Fields \ {"LAND1"} |-> FieldValue(k)])
LocNullCity == PyDict([k \in Fields |-> IF k = "ORT01" THEN PyNone ELSE FieldValue(k)])

InvalidBodies ==
    { PyDict([home |-> Loc(Fields)]),
      PyDict([home |-> LocNoCountry, office |-> Loc(Fields)]),
      PyDict([home |-> Loc(Fields), office |-> LocNullCity]),
      PyDict([home |-> Loc(Fields), office |-> PyStr(<<"Paris">>)]),
      PyList(<<PyStr(<<"home">>)>>),
      PyStr(<<"home">>) }

\* JSON documents that are falsy in Python
EmptyBodies == { PyNone, PyDict(<<>>), PyList(<<>>), PyStr(<<>>) }

\* no body at all, and a body that is not JSON
Absent == [type |-> "absent"]
Malformed == [type |-> "malformed"]

Requests ==
    { [is_json |-> TRUE, body |-> b] :
        b \in {Absent, Malformed} \cup EmptyBodies \cup InvalidBodies \cup ValidBodies }
      \cup { [is_json |-> FALSE, body |-> b] : b \in {Absent, Malformed, Loc(Fields)} }

(***************************************************************************)
(* app/main.py line 56: request.get_json().  With a JSON content type the  *)
(* body is decoded and a decoding failure raises BadRequest; without one,  *)
(* Flask before 2.1 returns None and later versions raise.                 *)
(***************************************************************************)
Returns(v) == [raised |-> FALSE, value |-> v]
Raises(e) == [raised |-> TRUE, exc |-> e]

get_json(req) ==
    IF ~req.is_json THEN { Returns(PyNone), Raises(HTTPException) }
    ELSE IF req.body.type \in {"absent", "malformed"} THEN { Raises(HTTPException) }
    ELSE { Returns(req.body) }

(***************************************************************************)
(* app/main.py: calculate_route, one action per step of the handler.       *)
(***************************************************************************)
Idle ==
    /\ data = Unset /\ route_request = Unset
    /\ home_address = Unset /\ office_address = Unset
    /\ loop = "none"
    /\ home_coords = <<Unset, Unset>> /\ office_coords = <<Unset, Unset>>
    /\ distance = Unset
    /\ calls = <<>>
    /\ exc = Unset
    /\ response = Unset

Init ==
    /\ pc = "get_json"
    /\ request \in Requests
    /\ Idle
    /\ arg = Unset /\ ret = Unset

\* the handler returns the envelope from outside the inner try (lines 59, 70, 165)
Return(envelope) ==
    /\ response' = envelope
    /\ pc' = "done"

\* an exception reaches the except clauses of lines 157-172, bound to e
Raise(e) ==
    /\ exc' = e
    /\ Return(Handle(e))

\* an exception leaves the inner try: finally closes the loop (line 115) first
Fail(e) ==
    /\ loop' = "closed"
    /\ Raise(e)

\* lines 54-64
ParseBody ==
    /\ pc = "get_json"
    /\ \E o \in get_json(request) :
         IF o.raised
         THEN /\ Raise(o.exc)
              /\ UNCHANGED data
         ELSE /\ data' = o.value
              /\ UNCHANGED exc
              /\ IF ~Truthy(o.value)
                 THEN Return(ErrorEnvelope(<<"No JSON data provided">>, 400))
                 ELSE pc' = "validate" /\ UNCHANGED response
    /\ UNCHANGED <<request, route_request, home_address, office_address, loop,
                   home_coords, office_coords, distance, calls, arg, ret>>

\* the exception RouteRequest(data) raises
ValidationFailure(d) ==
    IF d.type # "dict"
    THEN Exc("TypeError", <<"argument after ** must be a mapping">>)
    ELSE ValidationError

\* lines 66-75
Validate ==
    /\ pc = "validate"
    /\ IF RouteRequestValid(data)
       THEN /\ route_request' = RouteRequest(data)
            /\ pc' = "compose"
            /\ UNCHANGED response
       ELSE /\ Return(ErrorEnvelope(<<"Invalid request data: ">>
                                        \o ValidationFailure(data).text, 400))
            /\ UNCHANGED route_request
    /\ UNCHANGED <<request, data, home_address, office_address, loop,
                   home_coords, office_coords, distance, calls, exc, arg, ret>>

\* lines 77-82
Compose ==
    /\ pc = "compose"
    /\ home_address' = PyStr(compose_address(route_request.home))
    /\ office_address' = PyStr(compose_address(route_request.office))
    /\ pc' = "new_loop"
    /\ UNCHANGED <<request, data, route_request, loop, home_coords, office_coords,
                   distance, calls, exc, response, arg, ret>>

\* lines 84-86
NewLoop ==
    /\ pc = "new_loop"
    /\ \/ /\ loop' = "open"
          /\ pc' = "geocode_home"
          /\ UNCHANGED <<exc, response>>
       \/ /\ Raise(LoopSetupError)
          /\ UNCHANGED loop
    /\ UNCHANGED <<request, data, route_request, home_address, office_address,
                   home_coords, office_coords, distance, calls, arg, ret>>

GeocodeCall(address) == [op |-> "geocode", q |-> address]
RouteCall(start_coords, end_coords) ==
    [op |-> "route", coordinates |-> ors_coordinates(start_coords, end_coords)]

\* run_until_complete raises from the loop: the request may have left or not
LoopFails(call) ==
    /\ \E e \in LoopRunErrors : Fail(e)
    /\ \E issued \in BOOLEAN : calls' = IF issued THEN Append(calls, call) ELSE calls

\* lines 89-94
GeocodeHome ==
    /\ pc = "geocode_home"
    /\ \/ /\ \E x \in GeocodeExchanges : home_coords' = geocode(x)
          /\ calls' = Append(calls, GeocodeCall(home_address))
          /\ IF CoordsMissing(home_coords')
             THEN Fail(HomeGeocodeError(home_address))
             ELSE pc' = "geocode_office" /\ UNCHANGED <<loop, exc, response>>
       \/ /\ LoopFails(GeocodeCall(home_address))
          /\ UNCHANGED home_coords
    /\ UNCHANGED <<request, data, route_request, home_address, office_address,
                   office_coords, distance, arg, ret>>

\* lines 96-101
GeocodeOffice ==
    /\ pc = "geocode_office"
    /\ \/ /\ \E x \in GeocodeExchanges : office_coords' = geocode(x)
          /\ calls' = Append(calls, GeocodeCall(office_address))
          /\ IF CoordsMissing(office_coords')
             THEN Fail(OfficeGeocodeError(office_address))
             ELSE pc' = "route" /\ UNCHANGED <<loop, exc, response>>
       \/ /\ LoopFails(GeocodeCall(office_address))
          /\ UNCHANGED office_coords
    /\ UNCHANGED <<request, data, route_request, home_address, office_address,
                   home_coords, distance, arg, ret>>

\* lines 103-112
CalculateDistance ==
    /\ pc = "route"
    /\ \/ /\ \E x \in RoutingExchanges : distance' = calculate_distance(x)
          /\ calls' = Append(calls, RouteCall(home_coords, office_coords))
          /\ IF distance' = PyNone
             THEN Fail(RouteError)
             ELSE pc' = "respond" /\ UNCHANGED <<loop, exc, response>>
       \/ /\ LoopFails(RouteCall(home_coords, office_coords))
          /\ UNCHANGED distance
    /\ UNCHANGED <<request, data, route_request, home_address, office_address,
                   home_coords, office_coords, arg, ret>>

\* lines 114-155
Respond ==
    /\ pc = "respond"
    /\ loop' = "closed"
    /\ Return(SuccessEnvelope(route_request, home_address, office_address,
                              home_coords, office_coords, distance))
    /\ UNCHANGED <<request, data, route_request, home_address, office_address,
                   home_coords, office_coords, distance, calls, exc, arg, ret>>

Next ==
    \/ ParseBody
    \/ Validate
    \/ Compose
    \/ NewLoop
    \/ GeocodeHome
    \/ GeocodeOffice
    \/ CalculateDistance
    \/ Respond

Spec == Init /\ [][Next]_vars

(***************************************************************************)
(* compose_address on its own, over every Location: each field carries its *)
(* value, the empty string, or None.                                       *)
(***************************************************************************)
LocationInputs ==
    { PyDict([k \in Fields |-> IF k \in P THEN FieldValue(k)
                               ELSE IF k \in N THEN PyNone ELSE PyStr(<<>>)]) :
        P \in SUBSET Fields, N \in SUBSET Fields }

InitCompose ==
    /\ pc = "compose_call"
    /\ arg \in LocationInputs
    /\ ret = Unset
    /\ request = Unset
    /\ Idle

ComposeAddress ==
    /\ pc = "compose_call"
    /\ ret' = PyStr(compose_address(arg))
    /\ pc' = "compose_return"
    /\ UNCHANGED <<request, data, route_request, home_address, office_address, loop,
                   home_coords, office_coords, distance, calls, exc, response, arg>>

NextCompose == ComposeAddress

SpecCompose == InitCompose /\ [][NextCompose]_vars

(***************************************************************************)
(* The two clients on their own, over every provider response.             *)
(***************************************************************************)
InitClients ==
    /\ \/ pc = "geocode_call" /\ arg \in GeocodeExchanges
       \/ pc = "route_call" /\ arg \in RoutingExchanges
    /\ ret = Unset
    /\ request = Unset
    /\ Idle

Geocode ==
    /\ pc = "geocode_call"
    /\ ret' = geocode(arg)
    /\ pc' = "geocode_return"
    /\ UNCHANGED <<request, data, route_request, home_address, office_address, loop,
                   home_coords, office_coords, distance, calls, exc, response, arg>>

Distance ==
    /\ pc = "route_call"
    /\ ret' = calculate_distance(arg)
    /\ pc' = "route_return"
    /\ UNCHANGED <<request, data, route_request, home_address, office_address, loop,
                   home_coords, office_coords, distance, calls, exc, response, arg>>

NextClients == Geocode \/ Distance

SpecClients == InitClients /\ [][NextClients]_vars

(***************************************************************************)
(* Properties.                                                             *)
(***************************************************************************)
Done == pc = "done"

\* the request carries a JSON body that RouteRequest accepts
PassesValidation == request.is_json /\ request.body \in ValidBodies

\* the client returned coordinates / NotFound
Found(coords) == coords[1].type = "float" /\ coords[2].type = "float"
NotFound(coords) == coords = <<PyNone, PyNone>>

\* C1: the outbound calls of a request are a prefix of geocode(home address),
\* geocode(office address), route(home, office), each issued at most once;
\* after a NotFound home geocode no further call is issued, and after a
\* NotFound office geocode the route call is never issued.
C1_CallOrder ==
    /\ Len(calls) <= 3
    /\ Len(calls) >= 1 => calls[1] = [op |-> "geocode", q |-> home_address]
    /\ Len(calls) >= 2 => calls[2] = [op |-> "geocode", q |-> office_address]
    /\ Len(calls) >= 3 => calls[3].op = "route"
    /\ Len(calls) >= 2 => Found(home_coords)
    /\ Len(calls) >= 3 => Found(office_coords)
    /\ NotFound(home_coords) => Len(calls) = 1
    /\ NotFound(office_coords) => Len(calls) = 2

C1_Witness ==
    /\ Done /\ PassesValidation
    /\ NotFound(home_coords)
    /\ calls = << [op |-> "geocode", q |-> home_address] >>

\* C2: the error message is that of the first failing stage: the home message
\* with the composed home address, the office message with the composed office
\* address after a successful home geocode, the routing message after both.
C2_FirstFailureMessage ==
    Done =>
      /\ NotFound(home_coords) =>
           response.error =
             PyStr(<<"Could not geocode home address: ">> \o home_address.v)
      /\ Found(home_coords) /\ NotFound(office_coords) =>
           response.error =
             PyStr(<<"Could not geocode office address: ">> \o office_address.v)
      /\ Found(home_coords) /\ Found(office_coords) /\ distance = PyNone =>
           response.error = PyStr(<<"Could not calculate route between addresses">>)

C2_Witness ==
    /\ Done
    /\ NotFound(home_coords)
    /\ home_address = PyStr(<<"Paris">>)
    /\ response.error = PyStr(<<"Could not geocode home address: ", "Paris">>)

\* C3: the status is "success" exactly when both geocodes and the route
\* succeeded; the success data carries the coordinates each geocode returned,
\* the six fields of each location as sent, each composed address, and the
\* distance the routing client returned.
C3_SuccessData ==
    Done =>
      /\ response.status = "success" <=>
           Found(home_coords) /\ Found(office_coords) /\ distance.type = "float"
      /\ response.status = "success" =>
           LET sent == request.body.v
               out  == response.data
           IN  /\ out.home.coordinates =
                    [latitude |-> home_coords[1], longitude |-> home_coords[2]]
               /\ out.office.coordinates =
                    [latitude |-> office_coords[1], longitude |-> office_coords[2]]
               /\ \A k \in Fields : /\ out.home[k] = sent.home.v[k]
                                    /\ out.office[k] = sent.office.v[k]
               /\ out.home.home_address = home_address
               /\ out.office.office_address = office_address
               /\ out.distance = distance

C3_Witness ==
    /\ Done
    /\ response.status = "success"
    /\ home_coords # office_coords
    /\ response.data.distance = PyFloat(1235)

\* C4: every envelope has exactly one of data and error populated, as its
\* status says, and carries metadata.timestamp; the handler never finishes
\* without an envelope.
C4_Envelope ==
    /\ Done => response # Unset
    /\ response # Unset =>
         /\ \/ /\ response.status = "success"
               /\ response.data # PyNone /\ response.error = PyNone
            \/ /\ response.status = "error"
               /\ response.error.type = "str" /\ response.data = PyNone
         /\ "timestamp" \in DOMAIN response.metadata
         /\ response.metadata.timestamp.type = "str"

C4_Witness ==
    /\ Done
    /\ response.status = "error"
    /\ response.http_status = 500
    /\ response.data = PyNone

\* C5: a request whose body is absent, malformed, empty or rejected by
\* RouteRequest causes no outbound call.
C5_NoCallOnInvalidInput ==
    ~PassesValidation => calls = <<>>

C5_Witness ==
    /\ Done
    /\ request.is_json /\ request.body \in InvalidBodies
    /\ response.http_status = 400
    /\ calls = <<>>

\* C6: a malformed JSON body is answered 400 with a bad-input message, not
\* with the 500 envelope of an unexpected failure.
C6_MalformedIs400 ==
    Done /\ request.is_json /\ request.body = Malformed =>
      /\ response.http_status = 400
      /\ response.error # PyStr(GenericMessage)

\* one of the three failures the handler raises itself
Anticipated(e) ==
    /\ e.cls = "ValueError"
    /\ e.text[1] \in { "Could not geocode home address: ",
                       "Could not geocode office address: ",
                       "Could not calculate route between addresses" }

\* C7: every exception other than the three anticipated NotFound outcomes,
\* whatever its type, is answered with exactly "An unexpected error occurred",
\* and its own text does not appear in the response.
C7_UnexpectedIsOpaque ==
    Done /\ exc # Unset /\ ~Anticipated(exc) =>
      /\ response.error = PyStr(GenericMessage)
      /\ \A i \in DOMAIN exc.text :
           \A j \in DOMAIN response.error.v : response.error.v[j] # exc.text[i]

\* a field of the location carries a non-empty value
Present(l, k) == l.v[k].type = "str" /\ l.v[k].v # <<>>

\* "a b" when both are present, else whichever is present, else nothing
PairFragment(l, a, b) ==
    IF Present(l, a) /\ Present(l, b) THEN << l.v[a].v \o <<" ">> \o l.v[b].v >>
    ELSE IF Present(l, a) THEN << l.v[a].v >>
    ELSE IF Present(l, b) THEN << l.v[b].v >>
    ELSE <<>>

OneFragment(l, a) == IF Present(l, a) THEN << l.v[a].v >> ELSE <<>>

\* C8: the address is the fragments "house-number street" (or whichever is
\* present), complement, "postal-code city" (or whichever is present) and
\* country, in that order, joined with ", ".
C8_Fragments ==
    pc = "compose_return" =>
      ret = PyStr(Join(", ", PairFragment(arg, "HSNMR", "STRAS")
                               \o OneFragment(arg, "LOCAT")
                               \o PairFragment(arg, "PSTLZ", "ORT01")
                               \o OneFragment(arg, "LAND1")))

\* C9: the address holds only values of present fields and the separators,
\* never starts or ends with a separator, never has two separators in a row;
\* it is empty when every field is empty and is the city when only the city
\* is set.
C9_NoAbsentNoDoubleSeparator ==
    pc = "compose_return" =>
      LET t    == ret.v
          seps == {" ", ", "}
      IN  /\ \A i \in DOMAIN t :
               t[i] \in seps \/ \E k \in Fields : Present(arg, k) /\ arg.v[k].v = <<t[i]>>
          /\ t # <<>> => t[1] \notin seps /\ t[Len(t)] \notin seps
          /\ \A i \in 1..(Len(t) - 1) : ~(t[i] \in seps /\ t[i + 1] \in seps)
          /\ (\A k \in Fields : ~Present(arg, k)) => t = <<>>
          /\ (\A k \in Fields : Present(arg, k) <=> k = "ORT01") => t = <<"Paris">>

C9_Witness ==
    /\ pc = "compose_return"
    /\ Present(arg, "STRAS") /\ ~Present(arg, "LOCAT") /\ Present(arg, "LAND1")
    /\ arg.v["LOCAT"] = PyStr(<<>>)
    /\ ~Present(arg, "HSNMR") /\ ~Present(arg, "PSTLZ") /\ ~Present(arg, "ORT01")
    /\ ret = PyStr(<<"Rue de Rivoli", ", ", "France">>)

\* the numerals of the provider responses and the numbers they denote
NumeralValue(x) ==
    CASE x = Chars(<<"4", "8", ".", "8", "5">>) -> PyFloat(4885)
      [] x = Chars(<<"-", "0", ".", "5">>)      -> PyFloat(0 - 50)
      [] x = Chars(<<"2", ".", "3", "5">>)      -> PyFloat(235)
      [] OTHER                                  -> PyNone

\* metres and the kilometres Python prints for them, in hundredths
KmValue(m) ==
    CASE m = PyInt(0)     -> PyFloat(0)
      [] m = PyInt(1234)  -> PyFloat(123)
      [] m = PyInt(2675)  -> PyFloat(267)
      [] m = PyInt(12345) -> PyFloat(1235)
      [] OTHER            -> PyNone

\* C10: a client call always returns: the geocoding client the first
\* candidate's latitude and longitude when the exchange succeeds with a
\* well-formed first candidate and (None, None) otherwise; the routing client
\* the first route's distance when the exchange succeeds with a well-formed
\* first route and None otherwise.
C10_ClientsNeverRaise ==
    /\ pc = "geocode_return" =>
         LET first == arg.data.v[1]
             good  == /\ arg.kind = "json" /\ arg.data.type = "list" /\ arg.data.v # <<>>
                      /\ DOMAIN first.v = {"lat", "lon"}
                      /\ NumeralValue(first.v["lat"]) # PyNone
                      /\ NumeralValue(first.v["lon"]) # PyNone
         IN  IF good
             THEN ret = <<NumeralValue(first.v["lat"]), NumeralValue(first.v["lon"])>>
             ELSE ret = <<PyNone, PyNone>>
    /\ pc = "route_return" =>
         LET first == arg.data.v["routes"].v[1]
             good  == /\ arg.kind = "json" /\ arg.data.type = "dict"
                      /\ "routes" \in DOMAIN arg.data.v
                      /\ arg.data.v["routes"].v # <<>>
                      /\ "summary" \in DOMAIN first.v
                      /\ "distance" \in DOMAIN first.v["summary"].v
                      /\ KmValue(first.v["summary"].v["distance"]) # PyNone
         IN  IF good
             THEN ret = KmValue(first.v["summary"].v["distance"])
             ELSE ret = PyNone

C10_Witness ==
    /\ pc = "geocode_return"
    /\ arg.kind = "json" /\ arg.data.type = "list" /\ Len(arg.data.v) = 2
    /\ arg.data.v[2] = PyDict(<<>>)
    /\ ret = <<PyFloat(4885), PyFloat(235)>>

====
